---- MODULE Spec2Model ----
(***************************************************************************)
(* Segment repair (pkg/storage/segments/repairer.go) and the overlay       *)
(* cache's node selection (pkg/overlay/cache.go).                          *)
(*                                                                         *)
(* One Repair execution per repairer; every call of Repair to one of its   *)
(* collaborators (metainfo, overlay cache, orders, ec client) is one step. *)
(***************************************************************************)
EXTENDS Integers, Sequences, FiniteSets, TLC

\* ------------------------------------------------------------------ bounds
MaxTotal == 3       \* largest total piece count n of a redundancy scheme
NumNodes == 5       \* storage nodes known to the overlay
MaxPathLen == 5     \* longest path, in characters, given to createBucketID
MaxTime == 5        \* last instant of the clock

\* ----------------------------------------------------------------- helpers
Range(s) == {s[i] : i \in DOMAIN s}

RECURSIVE SortedSeq(_)
SortedSeq(S) ==
    IF S = {} THEN << >>
    ELSE LET m == CHOOSE x \in S : \A y \in S : x <= y
         IN  <<m>> \o SortedSeq(S \ {m})

Reverse(s) == [i \in 1..Len(s) |-> s[Len(s) + 1 - i]]

RECURSIVE CountOf(_, _)
CountOf(s, x) ==
    IF s = << >> THEN 0
    ELSE (IF Head(s) = x THEN 1 ELSE 0) + CountOf(Tail(s), x)

Distinct(s) == \A i, j \in DOMAIN s : i # j => s[i] # s[j]

\* --------------------------------------------------------------- the data
Repairers == {"w1"}

\* storj.NodeID: the zero id is invalid, so the nodes are 1..NumNodes
Nodes == 1..NumNodes

\* a nil *pb.Node / nil *pb.AddressedOrderLimit in a slot
NilNode == 0

\* a nil *pb.PieceHash in a slot
NilHash == << >>

\* storj.Path is a string; a path is the sequence of its characters
Slash == "/"
PathShort == <<"a", "/", "b">>
PathBucket == <<"a", "/", "b", "/", "c">>
PathObject == <<"a", "/", "b", "/", "c", "/", "d">>
Paths == {PathShort, PathBucket, PathObject}

\* pb.RedundancyScheme: MinReq = k, RepairThreshold = r, SuccessThreshold = s, Total = n
Schemes ==
    {[MinReq |-> k, RepairThreshold |-> r, SuccessThreshold |-> s, Total |-> n] :
        k \in 1..MaxTotal, r \in 1..MaxTotal, s \in 1..MaxTotal, n \in 2..MaxTotal}

\* the constraint k <= r < s <= n on a redundancy scheme
ValidScheme(red) ==
    /\ 1 <= red.MinReq
    /\ red.MinReq <= red.RepairThreshold
    /\ red.RepairThreshold < red.SuccessThreshold
    /\ red.SuccessThreshold <= red.Total

\* the schemes of the stored pointers: the valid ones, and those whose
\* thresholds are out of order (k <= n still holds for them)
StoredSchemes ==
    {red \in Schemes :
        \/ ValidScheme(red)
        \/ /\ red.MinReq <= red.Total
           /\ red.RepairThreshold = red.Total
           /\ red.SuccessThreshold = red.MinReq}

\* pb.RemotePiece; the hash is the one the node signed for that piece number
RemotePiece(num, node) == [PieceNum |-> num, NodeId |-> node, Hash |-> <<node, num>>]

\* the piece lists of the stored pointers: piece numbers distinct and in [0, n),
\* piece i on node i + 1, listed in ascending or in descending order
PieceLists(n) ==
    LET asc(I) == [i \in 1..Cardinality(I) |-> RemotePiece(SortedSeq(I)[i], SortedSeq(I)[i] + 1)]
    IN  UNION {{asc(I), Reverse(asc(I))} : I \in SUBSET (0..(n - 1))}

SegmentSizes == {8}
Expirations == {7}

NoPointer == [Type |-> "NONE"]
InlinePointer == [Type |-> "INLINE", SegmentSize |-> 1, ExpirationDate |-> 7]

RemotePointers ==
    UNION {{[Type |-> "REMOTE", SegmentSize |-> sz, ExpirationDate |-> ex,
             Redundancy |-> red, RemotePieces |-> ps] :
                sz \in SegmentSizes, ex \in Expirations, ps \in PieceLists(red.Total)} :
           red \in StoredSchemes}

StoredEntries == {NoPointer, InlinePointer} \cup RemotePointers

\* NodeSelectionConfig.NewNodePercentage, in hundredths
NewNodePercentages == {0, 50}

\* ------------------------------------------------------ storj path helpers
\* storj.SplitPath: strings.Split(path, "/"); n separators give n + 1 components
RECURSIVE SplitPath(_)
SplitPath(p) ==
    IF p = << >> THEN << << >> >>
    ELSE LET rest == SplitPath(Tail(p))
         IN  IF Head(p) = Slash
             THEN << << >> >> \o rest
             ELSE << <<Head(p)>> \o Head(rest) >> \o Tail(rest)

\* storj.JoinPaths: strings.Join(paths, "/"), for two paths
JoinPaths(a, b) == a \o <<Slash>> \o b

\* a failed call: the error class it returns
Failure(kind) == [err |-> kind]

\* the bucket id of a path of two components accepted: components 0 and 1
createBucketID_TwoComponents(p) ==
    LET comps == SplitPath(p)
    IN  IF Len(comps) < 2
        THEN Failure("MALFORMED_PATH")
        ELSE [err |-> "nil", id |-> JoinPaths(comps[1], comps[2])]

\* the bucket id taken from components 0 and 1
createBucketID_SecondComponent(p) ==
    LET comps == SplitPath(p)
    IN  IF Len(comps) < 3
        THEN Failure("MALFORMED_PATH")
        ELSE [err |-> "nil", id |-> JoinPaths(comps[1], comps[2])]

createBucketID(p) ==
    LET comps == SplitPath(p)
    IN  IF Len(comps) < 3
        THEN Failure("MALFORMED_PATH")
        ELSE [err |-> "nil", id |-> JoinPaths(comps[1], comps[3])]

\* ------------------------------------------------- Repair's local compute
sliceToSet(slice) == Range(slice)

\* the inner loop appending the node id of the piece for its piece number
RECURSIVE MatchesOf_NodeIdAppended(_, _)
MatchesOf_NodeIdAppended(p, badNodeIDs) ==
    IF badNodeIDs = << >> THEN << >>
    ELSE (IF Head(badNodeIDs) = p.NodeId THEN <<p.NodeId>> ELSE << >>)
         \o MatchesOf_NodeIdAppended(p, Tail(badNodeIDs))

\* the inner loop of updateMissingPieces: one entry per bad id equal to the piece's node
RECURSIVE MatchesOf(_, _)
MatchesOf(p, badNodeIDs) ==
    IF badNodeIDs = << >> THEN << >>
    ELSE (IF Head(badNodeIDs) = p.NodeId THEN <<p.PieceNum>> ELSE << >>)
         \o MatchesOf(p, Tail(badNodeIDs))

\* the loops of updateMissingPieces over the pieces, given the cache's answer
RECURSIVE updateMissingPieces(_, _)
updateMissingPieces(pieces, badNodeIDs) ==
    IF pieces = << >> THEN << >>
    ELSE MatchesOf(Head(pieces), badNodeIDs) \o updateMissingPieces(Tail(pieces), badNodeIDs)

\* the node ids updateMissingPieces hands to the cache, and Repair's excludeNodeIDs
NodeIDsOf(pieces) == [i \in 1..Len(pieces) |-> pieces[i].NodeId]

\* the gate with >= for > on the repair threshold
RepairNotNeeded_AtThreshold(numHealthy, red) ==
    numHealthy >= red.MinReq /\ numHealthy >= red.RepairThreshold

\* the repair-needed gate
RepairNotNeeded(numHealthy, red) ==
    numHealthy >= red.MinReq /\ numHealthy > red.RepairThreshold

\* healthyPieces with the test inverted: the lost pieces are kept
HealthyPieces_Inverted(pieces, lostPiecesSet) ==
    SelectSeq(pieces, LAMBDA piece : piece.PieceNum \in lostPiecesSet)

\* healthyPieces: the pieces whose piece number is not in lostPiecesSet
HealthyPieces(pieces, lostPiecesSet) ==
    SelectSeq(pieces, LAMBDA piece : piece.PieceNum \notin lostPiecesSet)

\* excludeNodeIDs never appended to
ExcludeNodeIDs_Empty(pieces) == << >>

\* excludeNodeIDs: the node of every piece of the pointer
ExcludeNodeIDs(pieces) == NodeIDsOf(pieces)

\* the appended pieces numbered from 1: PieceNum i + 1 for slot i
RECURSIVE UploadedPieces_OneBased(_, _, _)
UploadedPieces_OneBased(successfulNodes, hashes, i) ==
    IF i >= Len(successfulNodes) THEN << >>
    ELSE (IF successfulNodes[i + 1] = NilNode THEN << >>
          ELSE << [PieceNum |-> i + 1, NodeId |-> successfulNodes[i + 1], Hash |-> hashes[i + 1]] >>)
         \o UploadedPieces_OneBased(successfulNodes, hashes, i + 1)

\* a piece appended for every upload slot, the slots whose node is nil included
RECURSIVE UploadedPieces_NilSlotsKept(_, _, _)
UploadedPieces_NilSlotsKept(successfulNodes, hashes, i) ==
    IF i >= Len(successfulNodes) THEN << >>
    ELSE << [PieceNum |-> i, NodeId |-> successfulNodes[i + 1], Hash |-> hashes[i + 1]] >>
         \o UploadedPieces_NilSlotsKept(successfulNodes, hashes, i + 1)

\* the pieces appended for the upload slots whose node is not nil; slot i is at i + 1
RECURSIVE UploadedPieces(_, _, _)
UploadedPieces(successfulNodes, hashes, i) ==
    IF i >= Len(successfulNodes) THEN << >>
    ELSE (IF successfulNodes[i + 1] = NilNode THEN << >>
          ELSE << [PieceNum |-> i, NodeId |-> successfulNodes[i + 1], Hash |-> hashes[i + 1]] >>)
         \o UploadedPieces(successfulNodes, hashes, i + 1)

\* the piece list Repair assigns to the pointer
NewPieceList(healthyPieces, successfulNodes, hashes) ==
    healthyPieces \o UploadedPieces(successfulNodes, hashes, 0)

\* ---------------------------------------------------- the collaborators
\* metainfo.Service.Get: the pointer stored under the path, or not found
metainfoGet(st, p) ==
    IF st[p] = NoPointer THEN Failure("NOT_FOUND")
    ELSE [err |-> "nil", pointer |-> st[p]]

\* metainfo.Service.Put: a total replacement of the value under the path
metainfoPut(st, p, ptr) == [st EXCEPT ![p] = ptr]

\* eestream.NewRedundancyStrategyFromProto
NewRedundancyStrategyFromProto(red) ==
    IF ValidScheme(red) THEN [err |-> "nil", TotalCount |-> red.Total]
    ELSE Failure("INVALID_REDUNDANCY")

\* eestream.CalcPieceSize: the segment split over the k required pieces
CalcPieceSize(segmentSize, red) == (segmentSize + red.MinReq - 1) \div red.MinReq

\* DB.KnownUnreliableOrOffline: a subset of the ids asked about, or an error
KnownUnreliableOrOffline(nodeIds) ==
    {Failure("CACHE")} \cup
    {[err |-> "nil", badNodes |-> SortedSeq(S)] : S \in SUBSET Range(nodeIds)}

\* the versions the nodes report: "v1" on the odd nodes, "v2" on the even ones
NodeVersion(n) == IF n % 2 = 0 THEN "v2" ELSE "v1"

\* the order of the versions; the empty minimum version admits every node
VersionRank(v) == CASE v = "" -> 0 [] v = "v1" -> 1 [] v = "v2" -> 2

\* the minimum-version predicate of the node lookups
SatisfiesVersion(n, minimumVersion) == VersionRank(NodeVersion(n)) >= VersionRank(minimumVersion)

\* the nodes a lookup may return under the criteria: not excluded, of the minimum version
EligibleNodes(criteria) ==
    {n \in Nodes \ Range(criteria.Excluded) : SatisfiesVersion(n, criteria.MinimumVersion)}

\* the sequences a node lookup may return: at most count eligible nodes, each once
SelectableNodes(count, criteria) ==
    {SortedSeq(S) : S \in {T \in SUBSET EligibleNodes(criteria) : Cardinality(T) <= count}}

\* DB.SelectNewStorageNodes
SelectNewStorageNodes(count, criteria) ==
    {Failure("DB")} \cup
    {[err |-> "nil", nodes |-> ns] : ns \in SelectableNodes(count, criteria)}

\* DB.SelectStorageNodes
SelectStorageNodes(count, criteria) ==
    {Failure("DB")} \cup
    {[err |-> "nil", nodes |-> ns] : ns \in SelectableNodes(count, criteria)}

\* orders.Service.CreateGetRepairOrderLimits: one limit per healthy piece, in the
\* slot of its piece number (slot i is at i + 1)
GetRepairOrderLimits(pointer, healthyPieces) ==
    [slot \in 1..pointer.Redundancy.Total |->
        LET js == {j \in DOMAIN healthyPieces : healthyPieces[j].PieceNum = slot - 1}
        IN  IF js = {} THEN NilNode
            ELSE healthyPieces[CHOOSE j \in js : \A l \in js : l <= j].NodeId]

CreateGetRepairOrderLimits(pointer, healthyPieces) ==
    {Failure("ORDERS"), [err |-> "nil", limits |-> GetRepairOrderLimits(pointer, healthyPieces)]}

\* the piece number of the limit in a slot: the limits are aligned by piece
\* number, slot i being at i + 1
LimitPieceNum(slot) == slot - 1

\* the slots of a limit list that hold a limit
NonNilSlots(limits) == {slot \in DOMAIN limits : limits[slot] # NilNode}

\* orders.Service.CreatePutRepairOrderLimits: the new nodes, in order, in the
\* slots that have no GET limit
PutRepairOrderLimits(getOrderLimits, newNodes) ==
    LET free == SortedSeq(DOMAIN getOrderLimits \ NonNilSlots(getOrderLimits))
    IN  [slot \in DOMAIN getOrderLimits |->
            LET js == {j \in DOMAIN newNodes : j <= Len(free) /\ free[j] = slot}
            IN  IF js = {} THEN NilNode ELSE newNodes[CHOOSE j \in js : TRUE]]

CreatePutRepairOrderLimits(pointer, getOrderLimits, newNodes) ==
    {Failure("ORDERS")} \cup
    (IF Len(newNodes) > Cardinality(DOMAIN getOrderLimits \ NonNilSlots(getOrderLimits))
     THEN {}
     ELSE {[err |-> "nil", limits |-> PutRepairOrderLimits(getOrderLimits, newNodes)]})

\* ecclient.Get and the Range over its result: fewer than k pieces streaming
\* is INSUFFICIENT_SHARES
ecGet(limits, red) ==
    {IF streams < red.MinReq THEN Failure("INSUFFICIENT_SHARES")
     ELSE IF fault THEN Failure("TRANSPORT")
     ELSE [err |-> "nil"] :
        streams \in 0..Cardinality(NonNilSlots(limits)), fault \in BOOLEAN}

\* ecclient.Repair: per slot, the node that acknowledged and its signed hash
ecRepair(limits) ==
    {Failure("TRANSPORT")} \cup
    {[err |-> "nil",
      successfulNodes |-> [slot \in DOMAIN limits |->
                              IF slot \in ok THEN limits[slot] ELSE NilNode],
      hashes |-> [slot \in DOMAIN limits |->
                     IF slot \in ok THEN <<limits[slot], slot - 1>> ELSE NilHash]] :
        ok \in SUBSET NonNilSlots(limits)}

\* ------------------------------------------------------ overlay.Cache
\* the node count the selector works with: MinimumRequiredNodes, or RequestedCount
\* when that is not positive
ReputableNodeCount(req) ==
    IF req.MinimumRequiredNodes <= 0 THEN req.RequestedCount
    ELSE req.MinimumRequiredNodes

\* the share of new nodes rounded up
NewNodeCount_RoundedUp(req, prefs) ==
    IF prefs.NewNodePercentage > 0
    THEN (ReputableNodeCount(req) * prefs.NewNodePercentage + 99) \div 100
    ELSE 0

\* the share of new nodes, NewNodePercentage being in hundredths
NewNodeCount(req, prefs) ==
    IF prefs.NewNodePercentage > 0
    THEN (ReputableNodeCount(req) * prefs.NewNodePercentage) \div 100
    ELSE 0

\* the criteria of the new-node lookup
NewNodeCriteria(req, prefs) ==
    [FreeBandwidth |-> req.FreeBandwidth, FreeDisk |-> req.FreeDisk,
     Excluded |-> req.ExcludedNodes, MinimumVersion |-> prefs.MinimumVersion]

\* the exclusion of the reputable lookup without the new nodes
ReputableExcluded_NewNotAdded(req, newNodes) == req.ExcludedNodes

\* the new nodes are appended to the exclusion of the reputable lookup
ReputableExcluded(req, newNodes) == req.ExcludedNodes \o newNodes

\* the criteria of the reputable-node lookup
ReputableCriteria(req, prefs, newNodes) ==
    [FreeBandwidth |-> req.FreeBandwidth, FreeDisk |-> req.FreeDisk,
     Excluded |-> ReputableExcluded(req, newNodes), MinimumVersion |-> prefs.MinimumVersion]

\* the check on the concatenated result never failing
NotEnoughNodes_Never(nodes, req) == FALSE

\* the check on the concatenated result: fewer nodes than the count worked with
NotEnoughNodes(nodes, req) == Len(nodes) < ReputableNodeCount(req)

\* the nodes a lookup of the DB returned: none with an error
NodesOfLookup(out) == IF out.err = "nil" THEN out.nodes ELSE << >>

\* a lookup of the selector in the DB: the count asked for and the nodes obtained
Lookup(name, count, got) == [call |-> name, count |-> count, got |-> got]

\* Cache.FindStorageNodesWithPreferences: every result the two lookups allow,
\* with the lookups made
FindStorageNodesWithPreferences(req, prefs) ==
    LET newLookups ==
            IF NewNodeCount(req, prefs) > 0
            THEN {[out |-> new,
                   lookups |-> <<Lookup("db.SelectNewStorageNodes", NewNodeCount(req, prefs),
                                        Len(NodesOfLookup(new)))>>] :
                     new \in SelectNewStorageNodes(NewNodeCount(req, prefs),
                                                   NewNodeCriteria(req, prefs))}
            ELSE {[out |-> [err |-> "nil", nodes |-> << >>], lookups |-> << >>]}
    IN  UNION {
            IF l.out.err # "nil" THEN {[err |-> l.out.err, lookups |-> l.lookups]}
            ELSE LET new == l.out
                     count == ReputableNodeCount(req) - Len(new.nodes)
                 IN  {LET lookups == Append(l.lookups,
                                            Lookup("db.SelectStorageNodes", count,
                                                   Len(NodesOfLookup(rep))))
                      IN  IF rep.err # "nil" THEN [err |-> rep.err, lookups |-> lookups]
                          ELSE IF NotEnoughNodes(new.nodes \o rep.nodes, req)
                               THEN [err |-> "NOT_ENOUGH_NODES", nodes |-> new.nodes \o rep.nodes,
                                     lookups |-> lookups]
                               ELSE [err |-> "nil", nodes |-> new.nodes \o rep.nodes,
                                     lookups |-> lookups] :
                        rep \in SelectStorageNodes(count, ReputableCriteria(req, prefs, new.nodes))} :
            l \in newLookups}

\* the nodes an outcome carries: none with the error of a lookup
NodesOf(out) == IF "nodes" \in DOMAIN out THEN out.nodes ELSE << >>

\* Cache.FindStorageNodes
FindStorageNodes(req, prefs) == FindStorageNodesWithPreferences(req, prefs)

\* the request excluding the nodes of the healthy pieces only
RepairRequest_HealthyExcluded(ptr, healthyPieces, excludeNodeIDs) ==
    [MinimumRequiredNodes |-> 0,
     RequestedCount |-> NewRedundancyStrategyFromProto(ptr.Redundancy).TotalCount - Len(healthyPieces),
     FreeBandwidth |-> CalcPieceSize(ptr.SegmentSize, ptr.Redundancy),
     FreeDisk |-> CalcPieceSize(ptr.SegmentSize, ptr.Redundancy),
     ExcludedNodes |-> NodeIDsOf(healthyPieces),
     MinimumVersion |-> ""]

\* the request Repair builds for n - h new nodes
RepairRequest(ptr, healthyPieces, excludeNodeIDs) ==
    [MinimumRequiredNodes |-> 0,
     RequestedCount |-> NewRedundancyStrategyFromProto(ptr.Redundancy).TotalCount - Len(healthyPieces),
     FreeBandwidth |-> CalcPieceSize(ptr.SegmentSize, ptr.Redundancy),
     FreeDisk |-> CalcPieceSize(ptr.SegmentSize, ptr.Redundancy),
     ExcludedNodes |-> excludeNodeIDs,
     MinimumVersion |-> ""]

\* ------------------------------------------------------------- the state
VARIABLES
    store,            \* the pointer store: path -> pointer
    preferences,      \* the cache's NodeSelectionConfig
    pc,               \* each repairer's position in Repair
    path,             \* Repair's argument
    before,           \* the value stored under path when Repair was called
    pointer,          \* Repair's local copy of the pointer
    badNodeIDs,       \* the cache's answer in updateMissingPieces
    missingPieces,
    healthyPieces,
    excludeNodeIDs,
    bucketID,
    getOrderLimits,
    request,          \* the FindStorageNodesRequest
    newNodes,
    putLimits,
    successfulNodes,
    hashes,
    ret,              \* the return of Repair: which return statement, which error
    calls,            \* the calls Repair made to its collaborators, in order
    addresses,        \* the overlay DB: the address stored for each node
    lastCall,         \* the last call of Cache.Put, ConnFailure, ConnSuccess, or of
                      \* FindStorageNodes by a caller other than Repair
    now,              \* the clock read by time.Now()
    reputation,       \* the overlay DB: the NodeStats stored for each node
    lastContact       \* the last callback of each node whose uptime update the DB stored

locals == <<path, before, pointer, badNodeIDs, missingPieces, healthyPieces,
            excludeNodeIDs, bucketID, getOrderLimits, request, newNodes, putLimits,
            successfulNodes, hashes>>

\* the overlay DB and the cache's last callback
uptimeVars == <<now, reputation, lastContact>>

overlayVars == <<addresses, lastCall, uptimeVars>>

vars == <<store, preferences, pc, ret, calls, locals, overlayVars>>

NoRequest == [RequestedCount |-> -1]

Set(f, w, v) == [f EXCEPT ![w] = v]

Return(w, kind) == pc' = Set(pc, w, "returned") /\ ret' = Set(ret, w, kind)

Goto(w, label) == pc' = Set(pc, w, label) /\ UNCHANGED ret

Called(w, name) == calls' = Set(calls, w, Append(calls[w], name))

\* the locals of the executions of the workers W before their call
IdleLocalsOf(W) ==
    /\ before = [w \in W |-> NoPointer]
    /\ pointer = [w \in W |-> NoPointer]
    /\ badNodeIDs = [w \in W |-> << >>]
    /\ missingPieces = [w \in W |-> << >>]
    /\ healthyPieces = [w \in W |-> << >>]
    /\ excludeNodeIDs = [w \in W |-> << >>]
    /\ bucketID = [w \in W |-> << >>]
    /\ getOrderLimits = [w \in W |-> << >>]
    /\ request = [w \in W |-> NoRequest]
    /\ newNodes = [w \in W |-> << >>]
    /\ putLimits = [w \in W |-> << >>]
    /\ successfulNodes = [w \in W |-> << >>]
    /\ hashes = [w \in W |-> << >>]
    /\ ret = [w \in W |-> "none"]
    /\ calls = [w \in W |-> << >>]

IdleLocals == IdleLocalsOf(Repairers)

\* the overlay DB before any callback: every node at its first address
NoCall == [op |-> "none"]

\* the zero time.Time, before every instant of the clock
ZeroTime == 0

\* the length of preferences.OnlineWindow in instants of the clock
OnlineWindow == 2

\* the first instant of the clock, not within an online window of the zero time
FirstInstant == ZeroTime + OnlineWindow

\* NodeStats of a node that was never contacted
NoContact == [LastContactSuccess |-> ZeroTime, LastContactFailure |-> ZeroTime]

IdleOverlay ==
    /\ addresses = [n \in Nodes |-> "addr0"]
    /\ lastCall = NoCall
    /\ now = FirstInstant
    /\ reputation = [n \in Nodes |-> NoContact]
    /\ lastContact = [n \in Nodes |-> [kind |-> "none", at |-> ZeroTime]]

Init ==
    /\ IdleOverlay
    /\ \E e \in StoredEntries : store = [p \in Paths |-> e]
    /\ \E pct \in NewNodePercentages :
           preferences = [NewNodePercentage |-> pct, MinimumVersion |-> "v1"]
    /\ pc = [w \in Repairers |-> "idle"]
    /\ path = [w \in Repairers |-> << >>]
    /\ IdleLocals

\* ------------------------------------------------------------ Repair
\* the load that skips an inline segment without an error
RepairLoad_InlineSkipped(w, p) ==
    /\ pc[w] = "idle"
    /\ UNCHANGED overlayVars
    /\ path' = Set(path, w, p)
    /\ before' = Set(before, w, store[p])
    /\ Called(w, "metainfo.Get")
    /\ LET got == metainfoGet(store, p)
       IN  IF got.err # "nil"
           THEN Return(w, got.err) /\ UNCHANGED pointer
           ELSE /\ pointer' = Set(pointer, w, got.pointer)
                /\ IF got.pointer.Type # "REMOTE"
                   THEN Return(w, "NO_REPAIR_NEEDED")
                   ELSE IF NewRedundancyStrategyFromProto(got.pointer.Redundancy).err # "nil"
                        THEN Return(w, "INVALID_REDUNDANCY")
                        ELSE Goto(w, "classify")
    /\ UNCHANGED <<store, preferences, badNodeIDs, missingPieces, healthyPieces,
                   excludeNodeIDs, bucketID, getOrderLimits, request, newNodes,
                   putLimits, successfulNodes, hashes>>

\* Repair, from its call to the redundancy strategy: the pointer is read
RepairLoad(w, p) ==
    /\ pc[w] = "idle"
    /\ UNCHANGED overlayVars
    /\ path' = Set(path, w, p)
    /\ before' = Set(before, w, store[p])
    /\ Called(w, "metainfo.Get")
    /\ LET got == metainfoGet(store, p)
       IN  IF got.err # "nil"
           THEN Return(w, got.err) /\ UNCHANGED pointer
           ELSE /\ pointer' = Set(pointer, w, got.pointer)
                /\ IF got.pointer.Type # "REMOTE"
                   THEN Return(w, "NOT_REPAIRABLE")
                   ELSE IF NewRedundancyStrategyFromProto(got.pointer.Redundancy).err # "nil"
                        THEN Return(w, "INVALID_REDUNDANCY")
                        ELSE Goto(w, "classify")
    /\ UNCHANGED <<store, preferences, badNodeIDs, missingPieces, healthyPieces,
                   excludeNodeIDs, bucketID, getOrderLimits, request, newNodes,
                   putLimits, successfulNodes, hashes>>

\* updateMissingPieces, the repair-needed gate, healthyPieces and the bucket id
RepairClassify(w) ==
    /\ pc[w] = "classify"
    /\ UNCHANGED overlayVars
    /\ Called(w, "cache.KnownUnreliableOrOffline")
    /\ \E known \in KnownUnreliableOrOffline(NodeIDsOf(pointer[w].RemotePieces)) :
          IF known.err # "nil"
          THEN /\ Return(w, "CLASSIFY_ERROR")
               /\ UNCHANGED <<badNodeIDs, missingPieces, healthyPieces, excludeNodeIDs, bucketID>>
          ELSE LET pieces == pointer[w].RemotePieces
                   missing == updateMissingPieces(pieces, known.badNodes)
                   numHealthy == Len(pieces) - Len(missing)
                   lostPiecesSet == sliceToSet(missing)
                   bid == createBucketID(path[w])
               IN  /\ badNodeIDs' = Set(badNodeIDs, w, known.badNodes)
                   /\ missingPieces' = Set(missingPieces, w, missing)
                   /\ IF RepairNotNeeded(numHealthy, pointer[w].Redundancy)
                      THEN /\ Return(w, "NO_REPAIR_NEEDED")
                           /\ UNCHANGED <<healthyPieces, excludeNodeIDs, bucketID>>
                      ELSE /\ healthyPieces' = Set(healthyPieces, w, HealthyPieces(pieces, lostPiecesSet))
                           /\ excludeNodeIDs' = Set(excludeNodeIDs, w, ExcludeNodeIDs(pieces))
                           /\ IF bid.err # "nil"
                              THEN Return(w, bid.err) /\ UNCHANGED bucketID
                              ELSE bucketID' = Set(bucketID, w, bid.id) /\ Goto(w, "getOrders")
    /\ UNCHANGED <<store, preferences, path, before, pointer, getOrderLimits, request,
                   newNodes, putLimits, successfulNodes, hashes>>

\* the order limits for the GET_REPAIR action
RepairGetOrders(w) ==
    /\ pc[w] = "getOrders"
    /\ UNCHANGED overlayVars
    /\ Called(w, "orders.CreateGetRepairOrderLimits")
    /\ \E out \in CreateGetRepairOrderLimits(pointer[w], healthyPieces[w]) :
          IF out.err # "nil"
          THEN Return(w, out.err) /\ UNCHANGED getOrderLimits
          ELSE getOrderLimits' = Set(getOrderLimits, w, out.limits) /\ Goto(w, "selectNodes")
    /\ UNCHANGED <<store, preferences, path, before, pointer, badNodeIDs, missingPieces,
                   healthyPieces, excludeNodeIDs, bucketID, request, newNodes, putLimits,
                   successfulNodes, hashes>>

\* the selection going on to the download, the PUT_REPAIR limits skipped
RepairSelectNodes_PutOrdersSkipped(w) ==
    /\ pc[w] = "selectNodes"
    /\ UNCHANGED overlayVars
    /\ Called(w, "cache.FindStorageNodes")
    /\ LET req == RepairRequest(pointer[w], healthyPieces[w], excludeNodeIDs[w])
       IN  /\ request' = Set(request, w, req)
           /\ \E out \in FindStorageNodes(req, preferences) :
                 /\ newNodes' = Set(newNodes, w, NodesOf(out))
                 /\ IF out.err # "nil" THEN Return(w, out.err) ELSE Goto(w, "fetch")
    /\ UNCHANGED <<store, preferences, path, before, pointer, badNodeIDs, missingPieces,
                   healthyPieces, excludeNodeIDs, bucketID, getOrderLimits, putLimits,
                   successfulNodes, hashes>>

\* the request to the overlay for n - h new storage nodes
RepairSelectNodes(w) ==
    /\ pc[w] = "selectNodes"
    /\ UNCHANGED overlayVars
    /\ Called(w, "cache.FindStorageNodes")
    /\ LET req == RepairRequest(pointer[w], healthyPieces[w], excludeNodeIDs[w])
       IN  /\ request' = Set(request, w, req)
           /\ \E out \in FindStorageNodes(req, preferences) :
                 /\ newNodes' = Set(newNodes, w, NodesOf(out))
                 /\ IF out.err # "nil" THEN Return(w, out.err) ELSE Goto(w, "putOrders")
    /\ UNCHANGED <<store, preferences, path, before, pointer, badNodeIDs, missingPieces,
                   healthyPieces, excludeNodeIDs, bucketID, getOrderLimits, putLimits,
                   successfulNodes, hashes>>

\* the order limits for the PUT_REPAIR action
RepairPutOrders(w) ==
    /\ pc[w] = "putOrders"
    /\ UNCHANGED overlayVars
    /\ Called(w, "orders.CreatePutRepairOrderLimits")
    /\ \E out \in CreatePutRepairOrderLimits(pointer[w], getOrderLimits[w], newNodes[w]) :
          IF out.err # "nil"
          THEN Return(w, out.err) /\ UNCHANGED putLimits
          ELSE putLimits' = Set(putLimits, w, out.limits) /\ Goto(w, "fetch")
    /\ UNCHANGED <<store, preferences, path, before, pointer, badNodeIDs, missingPieces,
                   healthyPieces, excludeNodeIDs, bucketID, getOrderLimits, request,
                   newNodes, successfulNodes, hashes>>

\* the download whose error is dropped
RepairFetch_ErrorDropped(w) ==
    /\ pc[w] = "fetch"
    /\ UNCHANGED overlayVars
    /\ Called(w, "ec.Get")
    /\ \E out \in ecGet(getOrderLimits[w], pointer[w].Redundancy) : Goto(w, "upload")
    /\ UNCHANGED <<store, preferences, locals>>

\* the download of the segment from the healthy pieces
RepairFetch(w) ==
    /\ pc[w] = "fetch"
    /\ UNCHANGED overlayVars
    /\ Called(w, "ec.Get")
    /\ \E out \in ecGet(getOrderLimits[w], pointer[w].Redundancy) :
          IF out.err # "nil" THEN Return(w, out.err) ELSE Goto(w, "upload")
    /\ UNCHANGED <<store, preferences, locals>>

\* the upload with its error checked only after the pointer is put
RepairUpload_PutBeforeCheck(w) ==
    /\ pc[w] = "upload"
    /\ UNCHANGED overlayVars
    /\ Called(w, "ec.Repair")
    /\ \E out \in ecRepair(putLimits[w]) :
          IF out.err # "nil"
          THEN /\ store' = metainfoPut(store, path[w],
                                       [pointer[w] EXCEPT !.RemotePieces = healthyPieces[w]])
               /\ Return(w, out.err)
               /\ UNCHANGED <<successfulNodes, hashes>>
          ELSE /\ successfulNodes' = Set(successfulNodes, w, out.successfulNodes)
               /\ hashes' = Set(hashes, w, out.hashes)
               /\ Goto(w, "commit")
               /\ UNCHANGED store
    /\ UNCHANGED <<preferences, path, before, pointer, badNodeIDs, missingPieces,
                   healthyPieces, excludeNodeIDs, bucketID, getOrderLimits, request,
                   newNodes, putLimits>>

\* the upload of the repaired pieces
RepairUpload(w) ==
    /\ pc[w] = "upload"
    /\ UNCHANGED overlayVars
    /\ Called(w, "ec.Repair")
    /\ \E out \in ecRepair(putLimits[w]) :
          IF out.err # "nil"
          THEN Return(w, out.err) /\ UNCHANGED <<successfulNodes, hashes>>
          ELSE /\ successfulNodes' = Set(successfulNodes, w, out.successfulNodes)
               /\ hashes' = Set(hashes, w, out.hashes)
               /\ Goto(w, "commit")
    /\ UNCHANGED <<store, preferences, path, before, pointer, badNodeIDs, missingPieces,
                   healthyPieces, excludeNodeIDs, bucketID, getOrderLimits, request,
                   newNodes, putLimits>>

\* the uploaded pieces join healthyPieces, which replace the pointer's pieces,
\* and the pointer is put
RepairCommit(w) ==
    /\ pc[w] = "commit"
    /\ UNCHANGED overlayVars
    /\ Called(w, "metainfo.Put")
    /\ LET pieces == NewPieceList(healthyPieces[w], successfulNodes[w], hashes[w])
           ptr == [pointer[w] EXCEPT !.RemotePieces = pieces]
       IN  /\ healthyPieces' = Set(healthyPieces, w, pieces)
           /\ pointer' = Set(pointer, w, ptr)
           /\ \E fault \in BOOLEAN :
                 IF fault
                 THEN Return(w, "STORE") /\ UNCHANGED store
                 ELSE store' = metainfoPut(store, path[w], ptr) /\ Return(w, "COMMITTED")
    /\ UNCHANGED <<preferences, path, before, badNodeIDs, missingPieces, excludeNodeIDs,
                   bucketID, getOrderLimits, request, newNodes, putLimits,
                   successfulNodes, hashes>>

Repair(w) ==
    \/ \E p \in Paths : RepairLoad(w, p)
    \/ RepairClassify(w)
    \/ RepairGetOrders(w)
    \/ RepairSelectNodes(w)
    \/ RepairPutOrders(w)
    \/ RepairFetch(w)
    \/ RepairUpload(w)
    \/ RepairCommit(w)

\* one repairer
Next == Repair("w1")

Spec == Init /\ [][Next]_vars

\* ------------------------------------------------ createBucketID alone
PathAlphabet == {"a", "b", Slash}

\* every path of at most MaxPathLen characters
AllPaths == UNION {[1..len -> PathAlphabet] : len \in 0..MaxPathLen}

InitBucketID ==
    /\ IdleOverlay
    /\ store = [p \in Paths |-> NoPointer]
    /\ preferences = [NewNodePercentage |-> 0, MinimumVersion |-> "v1"]
    /\ pc = [w \in Repairers |-> "bucket"]
    /\ \E p \in AllPaths : path = [w \in Repairers |-> p]
    /\ IdleLocals

\* a call of createBucketID on the path
CreateBucketIDCall(w) ==
    /\ pc[w] = "bucket"
    /\ UNCHANGED overlayVars
    /\ LET bid == createBucketID(path[w])
       IN  IF bid.err # "nil"
           THEN Return(w, bid.err) /\ UNCHANGED bucketID
           ELSE bucketID' = Set(bucketID, w, bid.id) /\ Return(w, "nil")
    /\ UNCHANGED <<store, preferences, calls, path, before, pointer, badNodeIDs,
                   missingPieces, healthyPieces, excludeNodeIDs, getOrderLimits, request,
                   newNodes, putLimits, successfulNodes, hashes>>

NextBucketID == CreateBucketIDCall("w1")

SpecBucketID == InitBucketID /\ [][NextBucketID]_vars

\* ------------------------- the classification of the pieces alone
\* the nodes of the classified pieces, and a node that holds none of them
ClassifyNodes == 1..2
ClassifyBadNodes == 1..3

\* every sequence over S of at most len elements
SeqsUpTo(S, len) == UNION {[1..l -> S] : l \in 0..len}

\* the piece lists classified: any piece numbers in [0, n) on any of the nodes,
\* repeated numbers and repeated nodes included
ClassifyPieceLists ==
    SeqsUpTo({[PieceNum |-> num, NodeId |-> node, Hash |-> <<node, num>>] :
                 num \in 0..(MaxTotal - 1), node \in ClassifyNodes}, MaxTotal)

\* the answers of the cache: any list of at most two node ids
ClassifyAnswers == SeqsUpTo(ClassifyBadNodes, 2)

InitClassify ==
    /\ IdleOverlay
    /\ store = [p \in Paths |-> NoPointer]
    /\ preferences = [NewNodePercentage |-> 0, MinimumVersion |-> "v1"]
    /\ pc = [w \in Repairers |-> "pieces"]
    /\ path = [w \in Repairers |-> << >>]
    /\ before = [w \in Repairers |-> NoPointer]
    /\ \E ps \in ClassifyPieceLists :
           pointer = [w \in Repairers |->
                         [Type |-> "REMOTE", SegmentSize |-> 8, ExpirationDate |-> 7,
                          Redundancy |-> [MinReq |-> 1, RepairThreshold |-> 1,
                                          SuccessThreshold |-> 2, Total |-> MaxTotal],
                          RemotePieces |-> ps]]
    /\ badNodeIDs = [w \in Repairers |-> << >>]
    /\ missingPieces = [w \in Repairers |-> << >>]
    /\ healthyPieces = [w \in Repairers |-> << >>]
    /\ excludeNodeIDs = [w \in Repairers |-> << >>]
    /\ bucketID = [w \in Repairers |-> << >>]
    /\ getOrderLimits = [w \in Repairers |-> << >>]
    /\ request = [w \in Repairers |-> NoRequest]
    /\ newNodes = [w \in Repairers |-> << >>]
    /\ putLimits = [w \in Repairers |-> << >>]
    /\ successfulNodes = [w \in Repairers |-> << >>]
    /\ hashes = [w \in Repairers |-> << >>]
    /\ ret = [w \in Repairers |-> "none"]
    /\ calls = [w \in Repairers |-> << >>]

\* updateMissingPieces on the cache's answer, then lostPiecesSet and healthyPieces
ClassifyPieces(w) ==
    /\ pc[w] = "pieces"
    /\ UNCHANGED overlayVars
    /\ Called(w, "cache.KnownUnreliableOrOffline")
    /\ \E bad \in ClassifyAnswers :
          LET pieces == pointer[w].RemotePieces
              missing == updateMissingPieces(pieces, bad)
              lostPiecesSet == sliceToSet(missing)
          IN  /\ badNodeIDs' = Set(badNodeIDs, w, bad)
              /\ missingPieces' = Set(missingPieces, w, missing)
              /\ healthyPieces' = Set(healthyPieces, w, HealthyPieces(pieces, lostPiecesSet))
              /\ excludeNodeIDs' = Set(excludeNodeIDs, w, ExcludeNodeIDs(pieces))
    /\ Return(w, "nil")
    /\ UNCHANGED <<store, preferences, path, before, pointer, bucketID, getOrderLimits,
                   request, newNodes, putLimits, successfulNodes, hashes>>

NextClassify == ClassifyPieces("w1")

SpecClassify == InitClassify /\ [][NextClassify]_vars

\* ------------------------------------- Cache.Put and the transport observer
\* the zero storj.NodeID
ZeroNodeID == 0

\* the addresses a pb.Node may carry
Addresses == {"addr0", "addr1"}

\* pb.Node: the nodes the callers hand to the cache, the one without an id included
NodeValues == [Id : {ZeroNodeID} \cup Nodes, Address : Addresses]

\* pb.Node: the nodes the transport hands to its observer, the one without an id
\* and one with an id
ContactedValues == [Id : {ZeroNodeID, 1}, Address : Addresses]

\* the nodes the transport reports contacts of as time passes
UptimeNodes == 1..2

\* pb.Node: the nodes handed to the observer as time passes, their address unchanged
UptimeValues == [Id : {ZeroNodeID} \cup UptimeNodes, Address : {"addr0"}]

\* a call to the overlay DB or to Cache.Put, as the observer's log keeps it
DBCall(name, id, arg) == [call |-> name, id |-> id, arg |-> arg]

\* DB.UpdateAddress: the address of value.Id becomes value.Address, or the DB fails
UpdateAddress(db, value) ==
    {[err |-> "DB", db |-> db],
     [err |-> "nil", db |-> [db EXCEPT ![value.Id] = value.Address]]}

\* DB.UpdateUptime at the instant t: the DB fails, or the last successful or the
\* last failed contact of a node it knows becomes t
UpdateUptime(stats, id, isUp, t) ==
    {[err |-> "DB", stats |-> stats],
     [err |-> "nil",
      stats |-> IF id \notin DOMAIN stats THEN stats
                ELSE IF isUp THEN [stats EXCEPT ![id].LastContactSuccess = t]
                ELSE [stats EXCEPT ![id].LastContactFailure = t]]}

\* the callback of a node the DB knows, kept as its last one once its update is stored
Contacted(id, kind, err) ==
    IF err = "nil" /\ id \in DOMAIN lastContact
    THEN [lastContact EXCEPT ![id] = [kind |-> kind, at |-> now]]
    ELSE lastContact

\* NodeDossier: what the DB holds of a node
Dossier(id) == [Id |-> id, Address |-> addresses[id], Reputation |-> reputation[id]]

\* IsOnline without the comparison of the last success with the last failure
IsOnline_WindowOnly(node) ==
    now - node.Reputation.LastContactSuccess < OnlineWindow

\* Cache.IsOnline
IsOnline(node) ==
    /\ now - node.Reputation.LastContactSuccess < OnlineWindow
    /\ node.Reputation.LastContactSuccess > node.Reputation.LastContactFailure

\* Cache.Put with the zero id refused with an error
Put_ZeroRefused(db, nodeID, value) ==
    IF nodeID = ZeroNodeID
    THEN {[err |-> "EMPTY_NODE", db |-> db, dbCalls |-> << >>]}
    ELSE IF nodeID # value.Id
    THEN {[err |-> "INVALID_REQUEST", db |-> db, dbCalls |-> << >>]}
    ELSE {[err |-> out.err, db |-> out.db,
           dbCalls |-> <<DBCall("db.UpdateAddress", value.Id, value.Address)>>] :
              out \in UpdateAddress(db, value)}

\* Cache.Put: its outcomes on the DB db
Put(db, nodeID, value) ==
    IF nodeID = ZeroNodeID
    THEN {[err |-> "nil", db |-> db, dbCalls |-> << >>]}
    ELSE IF nodeID # value.Id
    THEN {[err |-> "INVALID_REQUEST", db |-> db, dbCalls |-> << >>]}
    ELSE {[err |-> out.err, db |-> out.db,
           dbCalls |-> <<DBCall("db.UpdateAddress", value.Id, value.Address)>>] :
              out \in UpdateAddress(db, value)}

\* the repairers take no step while the cache's callers run
CacheOnly == UNCHANGED <<store, preferences, pc, ret, calls, locals>>

\* a call of Cache.Put by one of its callers
CachePut(nodeID, value) ==
    /\ \E out \in Put(addresses, nodeID, value) :
          /\ addresses' = out.db
          /\ lastCall' = [op |-> "Put", nodeID |-> nodeID, value |-> value, err |-> out.err,
                          dbCalls |-> out.dbCalls, before |-> addresses]
    /\ UNCHANGED uptimeVars
    /\ CacheOnly

\* Cache.ConnFailure: the uptime of the node is updated, the error only logged
ConnFailure(node) ==
    /\ \E uptime \in UpdateUptime(reputation, node.Id, FALSE, now) :
          /\ reputation' = uptime.stats
          /\ lastContact' = Contacted(node.Id, "failure", uptime.err)
          /\ lastCall' = [op |-> "ConnFailure", node |-> node, uptimeErr |-> uptime.err,
                          dbCalls |-> <<DBCall("db.UpdateUptime", node.Id, "false")>>,
                          before |-> addresses]
    /\ UNCHANGED <<addresses, now>>
    /\ CacheOnly

\* ConnSuccess returning when Cache.Put fails
ConnSuccess_ReturnOnPutError(node) ==
    /\ \E out \in Put(addresses, node.Id, node) :
          /\ addresses' = out.db
          /\ IF out.err # "nil"
             THEN /\ lastCall' = [op |-> "ConnSuccess", node |-> node, putErr |-> out.err,
                                  uptimeErr |-> "nil",
                                  dbCalls |-> <<DBCall("cache.Put", node.Id, node.Address)>>
                                              \o out.dbCalls,
                                  before |-> addresses]
                  /\ UNCHANGED <<reputation, lastContact>>
             ELSE \E uptime \in UpdateUptime(reputation, node.Id, TRUE, now) :
                     /\ reputation' = uptime.stats
                     /\ lastContact' = Contacted(node.Id, "success", uptime.err)
                     /\ lastCall' = [op |-> "ConnSuccess", node |-> node, putErr |-> out.err,
                                     uptimeErr |-> uptime.err,
                                     dbCalls |-> <<DBCall("cache.Put", node.Id, node.Address)>>
                                                 \o out.dbCalls
                                                 \o <<DBCall("db.UpdateUptime", node.Id, "true")>>,
                                     before |-> addresses]
    /\ UNCHANGED now
    /\ CacheOnly

\* Cache.ConnSuccess: Cache.Put, then the uptime update, both errors only logged
ConnSuccess(node) ==
    /\ \E out \in Put(addresses, node.Id, node),
          uptime \in UpdateUptime(reputation, node.Id, TRUE, now) :
          /\ addresses' = out.db
          /\ reputation' = uptime.stats
          /\ lastContact' = Contacted(node.Id, "success", uptime.err)
          /\ lastCall' = [op |-> "ConnSuccess", node |-> node, putErr |-> out.err,
                          uptimeErr |-> uptime.err,
                          dbCalls |-> <<DBCall("cache.Put", node.Id, node.Address)>>
                                      \o out.dbCalls
                                      \o <<DBCall("db.UpdateUptime", node.Id, "true")>>,
                          before |-> addresses]
    /\ UNCHANGED now
    /\ CacheOnly

InitCache ==
    /\ IdleOverlay
    /\ store = [p \in Paths |-> NoPointer]
    /\ preferences = [NewNodePercentage |-> 0, MinimumVersion |-> "v1"]
    /\ pc = [w \in Repairers |-> "idle"]
    /\ path = [w \in Repairers |-> << >>]
    /\ IdleLocals

NextCache ==
    \/ \E nodeID \in {ZeroNodeID} \cup Nodes, value \in NodeValues : CachePut(nodeID, value)
    \/ \E node \in ContactedValues : ConnFailure(node)
    \/ \E node \in ContactedValues : ConnSuccess(node)

SpecCache == InitCache /\ [][NextCache]_vars

\* ------------------------------------------- the callbacks as time passes
\* the clock advances
Tick ==
    /\ now < MaxTime
    /\ now' = now + 1
    /\ UNCHANGED <<addresses, lastCall, reputation, lastContact>>
    /\ CacheOnly

NextUptime ==
    \/ Tick
    \/ \E node \in UptimeValues : ConnFailure(node)
    \/ \E node \in UptimeValues : ConnSuccess(node)

SpecUptime == InitCache /\ [][NextUptime]_vars

\* --------------------------------------- FindStorageNodes and its callers
\* the requests of the callers of FindStorageNodes other than Repair
FindStorageNodesRequests ==
    [MinimumRequiredNodes : 0..MaxTotal,
     RequestedCount : 0..MaxTotal,
     FreeBandwidth : {8},
     FreeDisk : {8},
     ExcludedNodes : {<< >>, <<1>>, <<1, 2>>},
     MinimumVersion : {"", "v2"}]

InitFind ==
    /\ IdleOverlay
    /\ store = [p \in Paths |-> NoPointer]
    /\ \E pct \in NewNodePercentages :
           preferences = [NewNodePercentage |-> pct, MinimumVersion |-> "v1"]
    /\ pc = [w \in Repairers |-> "find"]
    /\ path = [w \in Repairers |-> << >>]
    /\ before = [w \in Repairers |-> NoPointer]
    /\ pointer = [w \in Repairers |-> NoPointer]
    /\ badNodeIDs = [w \in Repairers |-> << >>]
    /\ missingPieces = [w \in Repairers |-> << >>]
    /\ healthyPieces = [w \in Repairers |-> << >>]
    /\ excludeNodeIDs = [w \in Repairers |-> << >>]
    /\ bucketID = [w \in Repairers |-> << >>]
    /\ getOrderLimits = [w \in Repairers |-> << >>]
    /\ \E req \in FindStorageNodesRequests : request = [w \in Repairers |-> req]
    /\ newNodes = [w \in Repairers |-> << >>]
    /\ putLimits = [w \in Repairers |-> << >>]
    /\ successfulNodes = [w \in Repairers |-> << >>]
    /\ hashes = [w \in Repairers |-> << >>]
    /\ ret = [w \in Repairers |-> "none"]
    /\ calls = [w \in Repairers |-> << >>]

\* a call of FindStorageNodes with the request, by a caller other than Repair
FindStorageNodesCall(w) ==
    /\ pc[w] = "find"
    /\ UNCHANGED <<addresses, uptimeVars>>
    /\ Called(w, "cache.FindStorageNodes")
    /\ \E out \in FindStorageNodes(request[w], preferences) :
          /\ newNodes' = Set(newNodes, w, NodesOf(out))
          /\ lastCall' = [op |-> "FindStorageNodes", err |-> out.err, lookups |-> out.lookups]
          /\ Return(w, out.err)
    /\ UNCHANGED <<store, preferences, path, before, pointer, badNodeIDs, missingPieces,
                   healthyPieces, excludeNodeIDs, bucketID, getOrderLimits, request,
                   putLimits, successfulNodes, hashes>>

\* the selector called by Repair and by its other callers
InitSelector == Init \/ InitFind

NextSelector == Repair("w1") \/ FindStorageNodesCall("w1")

SpecSelector == InitSelector /\ [][NextSelector]_vars

\* ------------------------------------- the repair queue's worker pool
\* two workers of the pool, each taking one job of the queue
QueueWorkers == {"w1", "w2"}

\* the segment every queued path points to: k = 1, r = 1, s = 2, n = 2, both pieces stored
QueueEntries ==
    {ptr \in RemotePointers :
        /\ ptr.Redundancy = [MinReq |-> 1, RepairThreshold |-> 1, SuccessThreshold |-> 2, Total |-> 2]
        /\ ptr.RemotePieces = <<RemotePiece(0, 1), RemotePiece(1, 2)>>}

\* a Repair execution between its load and its return
InFlight(w) == pc[w] \notin {"idle", "returned"}

\* the queue hands out a path with no check of the repairs in flight
QueueDedup_None(w, p) == TRUE

\* the queue's deduplication: a path in flight at another worker is not handed out
QueueDedup(w, p) == \A u \in DOMAIN pc \ {w} : ~(InFlight(u) /\ path[u] = p)

InitQueue ==
    /\ IdleOverlay
    /\ \E e \in QueueEntries : store = [p \in Paths |-> e]
    /\ \E pct \in NewNodePercentages :
           preferences = [NewNodePercentage |-> pct, MinimumVersion |-> "v1"]
    /\ pc = [w \in QueueWorkers |-> "idle"]
    /\ path = [w \in QueueWorkers |-> << >>]
    /\ IdleLocalsOf(QueueWorkers)

\* a worker takes the job of path p from the queue and calls Repair(p)
QueueTake(w, p) == QueueDedup(w, p) /\ RepairLoad(w, p)

NextQueue ==
    \E w \in QueueWorkers :
        \/ \E p \in Paths : QueueTake(w, p)
        \/ RepairClassify(w)
        \/ RepairGetOrders(w)
        \/ RepairSelectNodes(w)
        \/ RepairPutOrders(w)
        \/ RepairFetch(w)
        \/ RepairUpload(w)
        \/ RepairCommit(w)

SpecQueue == InitQueue /\ [][NextQueue]_vars

\* ------------------------------------------------------------ properties
Returned(w) == pc[w] = "returned"

Did(w, name) == name \in Range(calls[w])

\* the cache answered the classification of this repair
Classified(w) == Did(w, "cache.KnownUnreliableOrOffline") /\ ret[w] # "CLASSIFY_ERROR"

\* the pieces of the loaded pointer whose node the cache did not report
HealthyOf(w) ==
    SelectSeq(before[w].RemotePieces, LAMBDA piece : piece.NodeId \notin Range(badNodeIDs[w]))

\* the upload returned its slots without error
UploadReturned(w) == successfulNodes[w] # << >>

\* the size of the new piece list: the healthy pieces and one per non-nil slot
AssembledCount(w) == Len(HealthyOf(w)) + Cardinality(NonNilSlots(successfulNodes[w]))

\* C1: once the upload has returned, a new piece list shorter than the success
\* threshold s makes Repair fail with INSUFFICIENT_REPAIR and leaves the pointer
\* under path as it was (stated for the uploads with a successful slot, and a
\* failing put of the store set aside)
C1_SuccessGate ==
    \A w \in Repairers :
        (/\ Returned(w)
         /\ UploadReturned(w)
         /\ NonNilSlots(successfulNodes[w]) # {}
         /\ ret[w] # "STORE"
         /\ AssembledCount(w) < before[w].Redundancy.SuccessThreshold)
        => (ret[w] = "INSUFFICIENT_REPAIR" /\ store[path[w]] = before[w])

\* C2: with h the pieces whose node the cache did not report, h >= MinReq and
\* h > RepairThreshold ends Repair at the gate with no error, no further call and
\* no write; h <= RepairThreshold never ends at the gate and starts the planning
C2_RepairNeededGate ==
    \A w \in Repairers :
        Classified(w) =>
            LET h == Len(HealthyOf(w))
                red == before[w].Redundancy
            IN  /\ (h >= red.MinReq /\ h > red.RepairThreshold) =>
                       /\ Returned(w)
                       /\ ret[w] = "NO_REPAIR_NEEDED"
                       /\ calls[w] = <<"metainfo.Get", "cache.KnownUnreliableOrOffline">>
                       /\ store[path[w]] = before[w]
                /\ (h <= red.RepairThreshold) =>
                       /\ ret[w] # "NO_REPAIR_NEEDED"
                       /\ excludeNodeIDs[w] = NodeIDsOf(before[w].RemotePieces)
                       /\ (Returned(w) \/ pc[w] \in {"getOrders", "selectNodes", "putOrders",
                                                     "fetch", "upload", "commit"})

\* a repair that ended at the gate although the cache reported one of its nodes
C2_Witness ==
    \E w \in Repairers : ret[w] = "NO_REPAIR_NEEDED" /\ badNodeIDs[w] # << >>

\* C3: the store is put at most once, as the last call and after the upload
\* returned without error; unless Repair committed, the value under path is the
\* one before the call, and a committed value is the pointer Repair assembled
C3_SingleWrite ==
    \A w \in Repairers :
        /\ CountOf(calls[w], "metainfo.Put") <= 1
        /\ Did(w, "metainfo.Put") =>
               /\ calls[w][Len(calls[w])] = "metainfo.Put"
               /\ calls[w][Len(calls[w]) - 1] = "ec.Repair"
               /\ UploadReturned(w)
        /\ (pc[w] # "idle" /\ ret[w] # "COMMITTED") => store[path[w]] = before[w]
        /\ ret[w] = "COMMITTED" =>
               /\ Did(w, "metainfo.Put")
               /\ store[path[w]] = pointer[w]
               /\ store[path[w]].RemotePieces =
                      HealthyOf(w) \o UploadedPieces(successfulNodes[w], hashes[w], 0)

\* a repair whose upload failed
C3_Witness ==
    \E w \in Repairers : Did(w, "ec.Repair") /\ ret[w] = "TRANSPORT"

\* the pointer Repair loaded and the pointer now stored under its path
Loaded(w) == before[w]
Stored(w) == store[path[w]]

Committed(w) == ret[w] = "COMMITTED"

\* C4: a committed pointer keeps every healthy piece of the loaded pointer, with
\* its piece number, node and hash and in the same order; each other piece is on
\* a node this repair's selection returned; type, segment size, expiration and
\* redundancy are those of the loaded pointer
C4_Frame ==
    \A w \in Repairers :
        Committed(w) =>
            LET healthy == HealthyOf(w)
                pieces == Stored(w).RemotePieces
            IN  /\ SelectSeq(pieces, LAMBDA piece : piece \in Range(healthy)) = healthy
                /\ \A i \in DOMAIN pieces :
                       pieces[i] \notin Range(healthy) => pieces[i].NodeId \in Range(newNodes[w])
                /\ Stored(w).Type = Loaded(w).Type
                /\ Stored(w).SegmentSize = Loaded(w).SegmentSize
                /\ Stored(w).ExpirationDate = Loaded(w).ExpirationDate
                /\ Stored(w).Redundancy = Loaded(w).Redundancy

\* a commit that kept a healthy piece, dropped a reported one and added a new one
C4_Witness ==
    \E w \in Repairers :
        /\ Committed(w)
        /\ HealthyOf(w) # << >>
        /\ badNodeIDs[w] # << >>
        /\ Len(Stored(w).RemotePieces) > Len(HealthyOf(w))

\* piece numbers pairwise distinct, in [0, n), and at most n of them
WellNumbered(ptr) ==
    /\ Distinct([i \in DOMAIN ptr.RemotePieces |-> ptr.RemotePieces[i].PieceNum])
    /\ \A i \in DOMAIN ptr.RemotePieces :
           ptr.RemotePieces[i].PieceNum \in 0..(ptr.Redundancy.Total - 1)
    /\ Len(ptr.RemotePieces) <= ptr.Redundancy.Total

\* C5: if the loaded pointer's piece numbers are distinct, in [0, n) and at most
\* n, so are those of the pointer Repair commits
C5_PieceNumbers ==
    \A w \in Repairers :
        (Committed(w) /\ WellNumbered(Loaded(w))) => WellNumbered(Stored(w))

\* a commit after an upload in which one slot succeeded and another failed
C5_Witness ==
    \E w \in Repairers :
        /\ Committed(w)
        /\ WellNumbered(Loaded(w))
        /\ NonNilSlots(successfulNodes[w]) # {}
        /\ NonNilSlots(successfulNodes[w]) # NonNilSlots(putLimits[w])

TooFewHealthy(w) == Classified(w) /\ Len(HealthyOf(w)) < Loaded(w).Redundancy.MinReq

\* C7 as stated: with fewer than k healthy pieces Repair ends at the fetch with
\* INSUFFICIENT_SHARES, nothing uploaded and the pointer unchanged (the
\* collaborators' own faults set aside)
C7_Original ==
    \A w \in Repairers :
        (Returned(w) /\ TooFewHealthy(w) /\ ret[w] \notin {"ORDERS", "DB"}) =>
            /\ ret[w] = "INSUFFICIENT_SHARES"
            /\ Did(w, "ec.Get")
            /\ ~Did(w, "ec.Repair")
            /\ Stored(w) = Loaded(w)

\* C7 amended: with fewer than k healthy pieces Repair never ends at the gate,
\* uploads nothing, never puts the pointer and leaves it unchanged; a fetch that
\* is reached fails with INSUFFICIENT_SHARES, and the only other ends are the
\* failures of the steps before it
C7_Amended ==
    \A w \in Repairers :
        TooFewHealthy(w) =>
            /\ ~Did(w, "ec.Repair")
            /\ ~Did(w, "metainfo.Put")
            /\ Stored(w) = Loaded(w)
            /\ Did(w, "ec.Get") => (Returned(w) /\ ret[w] = "INSUFFICIENT_SHARES")
            /\ Returned(w) =>
                   ret[w] \in {"MALFORMED_PATH", "ORDERS", "DB", "NOT_ENOUGH_NODES",
                               "INSUFFICIENT_SHARES"}

\* a fetch that failed for a pointer with fewer than k healthy pieces
C7_Witness ==
    \E w \in Repairers :
        TooFewHealthy(w) /\ Did(w, "ec.Get") /\ ret[w] = "INSUFFICIENT_SHARES"

\* C8: no pointer under the path ends Repair with NOT_FOUND, an inline pointer
\* with NOT_REPAIRABLE; the read of the pointer is the only call and nothing is
\* written
C8_LoadErrors ==
    \A w \in Repairers :
        pc[w] # "idle" =>
            /\ Loaded(w) = NoPointer =>
                   /\ Returned(w) /\ ret[w] = "NOT_FOUND"
                   /\ calls[w] = <<"metainfo.Get">>
                   /\ Stored(w) = Loaded(w)
            /\ (Loaded(w) # NoPointer /\ Loaded(w).Type = "INLINE") =>
                   /\ Returned(w) /\ ret[w] = "NOT_REPAIRABLE"
                   /\ calls[w] = <<"metainfo.Get">>
                   /\ Stored(w) = Loaded(w)

\* a repair of an inline pointer that returned
C8_Witness ==
    \E w \in Repairers : Returned(w) /\ Loaded(w) = InlinePointer

\* a REMOTE pointer is stored under a path of fewer than 3 components
ShortPath(w) ==
    /\ pc[w] # "idle"
    /\ Loaded(w) # NoPointer
    /\ Loaded(w).Type = "REMOTE"
    /\ Cardinality({i \in DOMAIN path[w] : path[w][i] = Slash}) < 2

\* the gate's condition on the healthy pieces of the loaded pointer
GateHolds(w) ==
    /\ Len(HealthyOf(w)) >= Loaded(w).Redundancy.MinReq
    /\ Len(HealthyOf(w)) > Loaded(w).Redundancy.RepairThreshold

\* C9 as stated: under a path of fewer than 3 components Repair ends with
\* MALFORMED_PATH whatever the health of the pieces (stated for the pointers
\* with a valid scheme whose classification succeeded)
C9_Original ==
    \A w \in Repairers :
        (Returned(w) /\ ShortPath(w) /\ ValidScheme(Loaded(w).Redundancy) /\ Classified(w)) =>
            ret[w] = "MALFORMED_PATH"

\* C9 amended: under a path of fewer than 3 components Repair never commits,
\* issues no order, selects no node and writes nothing; it ends with
\* MALFORMED_PATH exactly when the scheme is valid, the classification succeeded
\* and the gate did not stop it, and with NO_REPAIR_NEEDED when the gate did
C9_Amended ==
    \A w \in Repairers :
        (Returned(w) /\ ShortPath(w)) =>
            /\ ~Committed(w)
            /\ ~Did(w, "orders.CreateGetRepairOrderLimits")
            /\ ~Did(w, "cache.FindStorageNodes")
            /\ Stored(w) = Loaded(w)
            /\ ret[w] = "MALFORMED_PATH" <=>
                   (ValidScheme(Loaded(w).Redundancy) /\ Classified(w) /\ ~GateHolds(w))
            /\ ret[w] = "NO_REPAIR_NEEDED" <=>
                   (ValidScheme(Loaded(w).Redundancy) /\ Classified(w) /\ GateHolds(w))

\* a repair under the two-component path that ended with MALFORMED_PATH
C9_Witness ==
    \E w \in Repairers :
        ShortPath(w) /\ ret[w] = "MALFORMED_PATH" /\ badNodeIDs[w] # << >>

\* the positions of the separators of a path, and its components by position
Separators(p) == {i \in DOMAIN p : p[i] = Slash}
NumComponents(p) == Cardinality(Separators(p)) + 1
Component(p, j) ==
    LET seps == SortedSeq(Separators(p))
        from == IF j = 0 THEN 1 ELSE seps[j] + 1
        to == IF j = Len(seps) THEN Len(p) ELSE seps[j + 1] - 1
    IN  SubSeq(p, from, to)

\* C10: createBucketID fails exactly on the paths of fewer than 3 components;
\* otherwise its result is component 0, a separator and component 2, the same
\* for every path that has these components 0 and 2
C10_BucketID ==
    \A w \in Repairers :
        (pc[w] = "returned" /\ ret[w] \in {"nil", "MALFORMED_PATH"} /\ calls[w] = << >>) =>
            /\ ret[w] = "MALFORMED_PATH" <=> NumComponents(path[w]) < 3
            /\ ret[w] = "nil" =>
                   /\ bucketID[w] = Component(path[w], 0) \o <<Slash>> \o Component(path[w], 2)
                   /\ \A q \in AllPaths :
                          (/\ NumComponents(q) >= 3
                           /\ Component(q, 0) = Component(path[w], 0)
                           /\ Component(q, 2) = Component(path[w], 2))
                          => createBucketID(q) = [err |-> "nil", id |-> bucketID[w]]

\* a bucket id derived from a path of four components
C10_Witness ==
    \E w \in Repairers :
        /\ pc[w] = "returned" /\ ret[w] = "nil" /\ calls[w] = << >>
        /\ NumComponents(path[w]) >= 4
        /\ Component(path[w], 1) # << >>

FindReturned(w) == Did(w, "cache.FindStorageNodes")
FindErr(w) ==
    IF Returned(w) /\ calls[w][Len(calls[w])] = "cache.FindStorageNodes" THEN ret[w] ELSE "nil"

\* C12: FindStorageNodes returns NOT_ENOUGH_NODES exactly when the new and the
\* reputable nodes together are fewer than the count the selector works with (a
\* failed lookup set aside); a result without error has at least that many
\* nodes; Repair returns on NOT_ENOUGH_NODES with no PUT order, no transfer and
\* no write
C12_NotEnoughNodes ==
    \A w \in Repairers :
        FindReturned(w) =>
            /\ FindErr(w) # "DB" =>
                   (FindErr(w) = "NOT_ENOUGH_NODES"
                        <=> Len(newNodes[w]) < ReputableNodeCount(request[w]))
            /\ FindErr(w) = "nil" => Len(newNodes[w]) >= ReputableNodeCount(request[w])
            /\ (ret[w] = "NOT_ENOUGH_NODES" /\ Did(w, "metainfo.Get")) =>
                   /\ Returned(w)
                   /\ ~Did(w, "orders.CreatePutRepairOrderLimits")
                   /\ ~Did(w, "ec.Get")
                   /\ ~Did(w, "ec.Repair")
                   /\ ~Did(w, "metainfo.Put")
                   /\ Stored(w) = Loaded(w)

\* a Repair that ended with NOT_ENOUGH_NODES after the selector found some nodes
C12_Witness ==
    \E w \in Repairers :
        /\ Did(w, "metainfo.Get")
        /\ ret[w] = "NOT_ENOUGH_NODES"
        /\ newNodes[w] # << >>

\* the target of the selection as the larger of the two counts of the request
MaxTarget(req) ==
    IF req.MinimumRequiredNodes >= req.RequestedCount THEN req.MinimumRequiredNodes
    ELSE req.RequestedCount

\* C13: the count the selector works with is max(MinimumRequiredNodes,
\* RequestedCount): the new-node share is that target's share and
\* NOT_ENOUGH_NODES is returned exactly below that target (a failed lookup set
\* aside)
C13_TargetIsMax ==
    \A w \in Repairers :
        (FindReturned(w) /\ FindErr(w) # "DB") =>
            /\ NewNodeCount(request[w], preferences) =
                   (IF preferences.NewNodePercentage > 0
                    THEN (MaxTarget(request[w]) * preferences.NewNodePercentage) \div 100
                    ELSE 0)
            /\ FindErr(w) # "DB" =>
                   (FindErr(w) = "NOT_ENOUGH_NODES" <=> Len(newNodes[w]) < MaxTarget(request[w]))

\* C14: a node list FindStorageNodes returns holds no node of the request's
\* ExcludedNodes and no node twice, the new nodes and the reputable nodes
\* being disjoint
C14_NoExcludedNoDuplicate ==
    \A w \in Repairers :
        FindReturned(w) =>
            /\ Range(newNodes[w]) \cap Range(request[w].ExcludedNodes) = {}
            /\ Distinct(newNodes[w])

\* a result of a selection with a new-node share, two nodes or more, and excluded nodes
C14_Witness ==
    \E w \in Repairers :
        /\ FindReturned(w) /\ FindErr(w) = "nil"
        /\ NewNodeCount(request[w], preferences) > 0
        /\ Len(newNodes[w]) >= 2
        /\ request[w].ExcludedNodes # << >>

\* C15: the criteria of both lookups carry the MinimumVersion of the request, so
\* every node FindStorageNodes returns is of the request's minimum version
\* (stated on the nodes returned)
C15_MinimumVersion ==
    \A w \in Repairers :
        FindReturned(w) =>
            \A n \in Range(newNodes[w]) : SatisfiesVersion(n, request[w].MinimumVersion)

\* the last call of the cache was Put, and the ids it was given
PutCalled == lastCall.op = "Put"
PutMismatch == lastCall.nodeID # lastCall.value.Id

\* C16 as stated: Put with a node id other than value.Id returns an error and
\* leaves the addresses as they were, the zero node id included
C16_Original ==
    (PutCalled /\ PutMismatch) => (lastCall.err # "nil" /\ addresses = lastCall.before)

\* C16 amended: Put with the zero node id returns no error and changes nothing,
\* whatever value.Id; with a non-zero node id other than value.Id it returns an
\* error, calls no DB and changes nothing; with matching non-zero ids that
\* succeed, the address of that node alone becomes value.Address and the same
\* Put applied again leaves the addresses as they are
C16_Amended ==
    PutCalled =>
        /\ lastCall.nodeID = ZeroNodeID =>
               (lastCall.err = "nil" /\ lastCall.dbCalls = << >> /\ addresses = lastCall.before)
        /\ (lastCall.nodeID # ZeroNodeID /\ PutMismatch) =>
               /\ lastCall.err = "INVALID_REQUEST"
               /\ lastCall.dbCalls = << >>
               /\ addresses = lastCall.before
        /\ (lastCall.nodeID # ZeroNodeID /\ ~PutMismatch /\ lastCall.err = "nil") =>
               /\ addresses = [lastCall.before EXCEPT ![lastCall.nodeID] = lastCall.value.Address]
               /\ \A again \in Put(addresses, lastCall.nodeID, lastCall.value) :
                      again.db = addresses

\* a Put with the zero node id and a value of another id has returned
C16_Witness ==
    PutCalled /\ lastCall.nodeID = ZeroNodeID /\ lastCall.value.Id # ZeroNodeID

\* the calls of the last callback named name
CallsNamed(name) == SelectSeq(lastCall.dbCalls, LAMBDA c : c.call = name)

\* C17: ConnFailure(node) makes exactly one UpdateUptime(node.Id, false) and no
\* address update; ConnSuccess(node) calls Put(node.Id, node) first and makes
\* exactly one UpdateUptime(node.Id, true) last, also when the Put failed
C17_Observer ==
    /\ lastCall.op = "ConnFailure" =>
           /\ lastCall.dbCalls = <<DBCall("db.UpdateUptime", lastCall.node.Id, "false")>>
           /\ addresses = lastCall.before
    /\ lastCall.op = "ConnSuccess" =>
           /\ Head(lastCall.dbCalls) = DBCall("cache.Put", lastCall.node.Id, lastCall.node.Address)
           /\ lastCall.dbCalls[Len(lastCall.dbCalls)] =
                  DBCall("db.UpdateUptime", lastCall.node.Id, "true")
           /\ Len(CallsNamed("db.UpdateUptime")) = 1
           /\ Len(CallsNamed("cache.Put")) = 1
           /\ lastCall.putErr = "nil" =>
                  \A n \in Nodes : n # lastCall.node.Id => addresses[n] = lastCall.before[n]

\* a ConnSuccess whose Put failed
C17_Witness == lastCall.op = "ConnSuccess" /\ lastCall.putErr # "nil"

\* the calls of a Repair that runs to its commit, and where Repair stands
\* before each of them
StageOrder ==
    <<"metainfo.Get", "cache.KnownUnreliableOrOffline", "orders.CreateGetRepairOrderLimits",
      "cache.FindStorageNodes", "orders.CreatePutRepairOrderLimits", "ec.Get", "ec.Repair",
      "metainfo.Put">>
StagePosition ==
    <<"idle", "classify", "getOrders", "selectNodes", "putOrders", "fetch", "upload", "commit">>

\* the calls made so far are the first stages, each once and in order, and
\* Repair stands before the next one unless it has returned
InStageOrder(w) ==
    /\ Len(calls[w]) <= Len(StageOrder)
    /\ calls[w] = SubSeq(StageOrder, 1, Len(calls[w]))
    /\ ~Returned(w) =>
           /\ Len(calls[w]) < Len(StageOrder)
           /\ pc[w] = StagePosition[Len(calls[w]) + 1]
           /\ ret[w] = "none"
    /\ ret[w] = "NO_REPAIR_NEEDED" => Len(calls[w]) = 2
    /\ Committed(w) => calls[w] = StageOrder

\* C18: the calls of every Repair are the stages load, classify, GET orders,
\* node selection, PUT orders, fetch, upload, commit, in this order, none
\* skipped or repeated; the no-op ends after the classification, the commit
\* comes after all the others, and a Repair that has returned makes no call
C18_StageOrder ==
    /\ [](\A w \in Repairers : InStageOrder(w))
    /\ [][\A w \in Repairers :
              Returned(w) => (calls'[w] = calls[w] /\ pc'[w] = pc[w] /\ ret'[w] = ret[w])]_vars

\* a Repair that went through every stage and committed
C18_Witness == \E w \in Repairers : Committed(w) /\ Len(calls[w]) = Len(StageOrder)

\* the piece numbers of the pieces of w's pointer that are on a reported node
MissingIndices(w) ==
    {pointer[w].RemotePieces[i].PieceNum :
        i \in {j \in DOMAIN pointer[w].RemotePieces :
                  pointer[w].RemotePieces[j].NodeId \in Range(badNodeIDs[w])}}

\* C19: the missing piece numbers Repair computes are exactly those of the
\* pieces whose node the cache reported, and healthyPieces is the pointer's
\* piece list without the pieces of a missing number, in the pointer's order
C19_Classification ==
    \A w \in Repairers :
        (Returned(w) /\ ret[w] = "nil" /\ calls[w] = <<"cache.KnownUnreliableOrOffline">>) =>
            /\ sliceToSet(missingPieces[w]) = MissingIndices(w)
            /\ healthyPieces[w] =
                   SelectSeq(pointer[w].RemotePieces,
                             LAMBDA piece : piece.PieceNum \notin MissingIndices(w))

\* a classification that kept a piece, dropped one, and met a node reported twice
C19_Witness ==
    \E w \in Repairers :
        /\ Returned(w) /\ ret[w] = "nil" /\ calls[w] = <<"cache.KnownUnreliableOrOffline">>
        /\ healthyPieces[w] # << >>
        /\ Len(missingPieces[w]) > Cardinality(MissingIndices(w))
        /\ Len(healthyPieces[w]) + Cardinality(MissingIndices(w)) < Len(pointer[w].RemotePieces)

\* C20: the request Repair hands to FindStorageNodes asks for n - h nodes, n the
\* total of the scheme and h the number of healthy pieces, with FreeBandwidth
\* and FreeDisk the piece size of the segment, and excludes the node of every
\* piece of the loaded pointer, healthy or not
C20_Request ==
    \A w \in Repairers :
        (Did(w, "metainfo.Get") /\ Did(w, "cache.FindStorageNodes")) =>
            /\ request[w].RequestedCount = Loaded(w).Redundancy.Total - Len(HealthyOf(w))
            /\ request[w].FreeBandwidth = CalcPieceSize(Loaded(w).SegmentSize, Loaded(w).Redundancy)
            /\ request[w].FreeDisk = CalcPieceSize(Loaded(w).SegmentSize, Loaded(w).Redundancy)
            /\ request[w].ExcludedNodes = NodeIDsOf(Loaded(w).RemotePieces)

\* a request built for a pointer with a healthy piece and a piece on a reported node
C20_Witness ==
    \E w \in Repairers :
        /\ Did(w, "cache.FindStorageNodes")
        /\ HealthyOf(w) # << >>
        /\ badNodeIDs[w] # << >>
        /\ request[w].RequestedCount >= 2

\* the pieces of w's pointer after the healthy ones
AppendedPieces(w) ==
    SubSeq(pointer[w].RemotePieces, Len(HealthyOf(w)) + 1, Len(pointer[w].RemotePieces))

\* C21: the pieces Repair appends are one per upload slot whose node is not nil,
\* in the order of the slots, each with the piece number of the PUT limit of its
\* slot, the id of the node returned in the slot and the hash returned in the
\* slot; a slot whose node is nil adds no piece
C21_AppendedPieces ==
    \A w \in Repairers :
        Did(w, "metainfo.Put") =>
            LET slots == SortedSeq(NonNilSlots(successfulNodes[w]))
            IN  /\ Len(AppendedPieces(w)) = Len(slots)
                /\ \A j \in DOMAIN slots :
                       /\ putLimits[w][slots[j]] # NilNode
                       /\ AppendedPieces(w)[j] =
                              [PieceNum |-> LimitPieceNum(slots[j]),
                               NodeId |-> successfulNodes[w][slots[j]],
                               Hash |-> hashes[w][slots[j]]]

\* an assembled piece list after an upload with a nil slot before a successful one
C21_Witness ==
    \E w \in Repairers :
        /\ Did(w, "metainfo.Put")
        /\ \E i, j \in DOMAIN successfulNodes[w] :
               /\ i < j
               /\ putLimits[w][i] # NilNode /\ successfulNodes[w][i] = NilNode
               /\ successfulNodes[w][j] # NilNode

\* C22: a loaded REMOTE pointer with fewer pieces than the required count k, or
\* with a scheme that breaks k <= r < s <= n, makes Repair fail with
\* INVALID_REDUNDANCY before the classification, nothing else called and
\* nothing written
C22_InvalidRedundancy ==
    \A w \in Repairers :
        (/\ Did(w, "metainfo.Get")
         /\ Loaded(w) # NoPointer
         /\ Loaded(w).Type = "REMOTE"
         /\ \/ Len(Loaded(w).RemotePieces) < Loaded(w).Redundancy.MinReq
            \/ ~ValidScheme(Loaded(w).Redundancy)) =>
            /\ Returned(w)
            /\ ret[w] = "INVALID_REDUNDANCY"
            /\ calls[w] = <<"metainfo.Get">>
            /\ Stored(w) = Loaded(w)

\* the lookups named name that the last call of FindStorageNodes made
LookupsNamed(name) == SelectSeq(lastCall.lookups, LAMBDA l : l.call = name)

\* C23: with t the count the selector works with and f the new-node fraction,
\* the selector asks for new nodes only when floor(t * f) > 0, and then once and
\* for at most floor(t * f); it then asks once for exactly t less the number of
\* new nodes obtained reputable nodes, which is never negative
C23_LookupCounts ==
    \A w \in Repairers :
        lastCall.op = "FindStorageNodes" =>
            LET t == ReputableNodeCount(request[w])
                share == (t * preferences.NewNodePercentage) \div 100
                new == LookupsNamed("db.SelectNewStorageNodes")
                reputable == LookupsNamed("db.SelectStorageNodes")
                obtained == IF new = << >> THEN 0 ELSE new[1].got
            IN  /\ Len(new) = (IF share > 0 THEN 1 ELSE 0)
                /\ \A i \in DOMAIN new : new[i].count >= 1 /\ new[i].count <= share
                /\ lastCall.lookups = new \o reputable
                /\ Len(reputable) <= 1
                /\ (lastCall.err # "DB" \/ new = << >>) => Len(reputable) = 1
                /\ \A i \in DOMAIN reputable :
                       reputable[i].count = t - obtained /\ reputable[i].count >= 0

\* a selection whose new-node lookup returned a node and whose reputable lookup
\* was asked for the rest
C23_Witness ==
    /\ lastCall.op = "FindStorageNodes"
    /\ LookupsNamed("db.SelectNewStorageNodes") # << >>
    /\ LookupsNamed("db.SelectNewStorageNodes")[1].got >= 1
    /\ LookupsNamed("db.SelectStorageNodes") # << >>
    /\ LookupsNamed("db.SelectStorageNodes")[1].count >= 1

\* the classification of a piece list that holds each piece number and each
\* node once, answered by the cache with ids of the list's nodes only
ClassifiedDistinct(w) ==
    /\ Returned(w) /\ ret[w] = "nil"
    /\ calls[w] = <<"cache.KnownUnreliableOrOffline">>
    /\ Distinct([i \in DOMAIN pointer[w].RemotePieces |-> pointer[w].RemotePieces[i].PieceNum])
    /\ Distinct(NodeIDsOf(pointer[w].RemotePieces))
    /\ Range(badNodeIDs[w]) \subseteq Range(NodeIDsOf(pointer[w].RemotePieces))

FailedSlots(w) ==
    {i \in DOMAIN successfulNodes[w] :
        putLimits[w][i] # NilNode /\ successfulNodes[w][i] = NilNode}

\* C25: every pointer Repair commits carries at least k pieces, k the required
\* count of its redundancy scheme, whichever upload slots failed
C25_AtLeastK ==
    \A w \in Repairers :
        Committed(w) =>
            /\ Stored(w).Type = "REMOTE"
            /\ Len(Stored(w).RemotePieces) >= Stored(w).Redundancy.MinReq
            /\ Stored(w).Redundancy = Loaded(w).Redundancy

\* a commit after an upload whose slots all failed, of a pointer left with
\* exactly k pieces
C25_Witness ==
    \E w \in Repairers :
        /\ Committed(w)
        /\ FailedSlots(w) # {}
        /\ NonNilSlots(successfulNodes[w]) = {}
        /\ Len(Stored(w).RemotePieces) = Stored(w).Redundancy.MinReq

\* C26: a node is online only if the last of its callbacks that the DB stored
\* was a ConnSuccess less than the online window ago; after a stored ConnFailure
\* it is not online until a later ConnSuccess, and it is not online once its
\* last success is the online window or more in the past
C26_OnlineOnlyAfterSuccess ==
    \A id \in Nodes :
        /\ IsOnline(Dossier(id)) =>
               /\ lastContact[id].kind = "success"
               /\ now - lastContact[id].at < OnlineWindow
        /\ lastContact[id].kind = "failure" => ~IsOnline(Dossier(id))
        /\ now - reputation[id].LastContactSuccess >= OnlineWindow => ~IsOnline(Dossier(id))

\* a node online some time after a ConnSuccess that followed a ConnFailure
C26_Witness ==
    \E id \in Nodes :
        /\ IsOnline(Dossier(id))
        /\ reputation[id].LastContactFailure # ZeroTime
        /\ now > reputation[id].LastContactSuccess

====
